---------------------------- MODULE Spec2Model ----------------------------
(***************************************************************************)
(* A model of snotel_mcp_server: five tools over the USDA AWDB REST API.   *)
(* Every tool invocation is a coroutine: it builds one request, awaits the  *)
(* Remote Data Source, and resumes on the JSON response or on the raised    *)
(* transport error.  The measurement normaliser and the trend analysis of   *)
(* analyze_snowpack_trends are modelled as operators computed the way the   *)
(* code computes them.                                                      *)
(*                                                                         *)
(* Encoding.  Numbers are fixed point, in hundredths of an inch (1000 is    *)
(* 10.00).  JSON null and a missing key read with .get() are both Python    *)
(* None: Null for a value, NoDate for a date, NoNum for a float argument,   *)
(* NoState for the state argument.  Dates are day numbers; the code sorts   *)
(* date strings, which orders ISO dates as it orders these numbers.  A     *)
(* colon separated triplet is the tuple of its parts (what split(":")       *)
(* returns).  A Python dict is a function on its keys.                       *)
(***************************************************************************)
EXTENDS Integers, Sequences, FiniteSets, TLC

VARIABLES
    pc,        \* "idle" | "awaiting" | "responded" | "failed" | "returned"
               \* | "rejected"
    tool,      \* the tool being invoked, "none" before the first invocation
    args,      \* the arguments of the invocation
    request,   \* the outbound request of api_client._request, or NoRequest
    requests,  \* outbound requests issued during this invocation
    response,  \* what the Remote Data Source answered, or NoResponse
    result     \* what the invocation handed to its caller, or NoResult

vars == <<pc, tool, args, request, requests, response, result>>

---------------------------------------------------------------------------
(* Bounds of the model.                                                    *)

\* longest single-element series the source answers with
MaxSeries == 4
\* most observations in a one-entry answer of varied structure
MaxObs == 2
\* most station entries in a many-entry answer
MaxEntries == 2
\* requests after which the model stops counting
MaxRequests == 2

---------------------------------------------------------------------------
(* Python None.                                                            *)

Null == -1
NoDate == 0
NoNum == -1000
NoState == "None"

NoRequest == [endpoint |-> "none"]
NoResponse == [shape |-> "none", stations |-> <<>>]
NoResult == [kind |-> "none"]
NoArgs == [none |-> TRUE]

EmptyDict == [k \in {} |-> 0]

---------------------------------------------------------------------------
(* Arithmetic helpers.                                                     *)

RECURSIVE SumSeq(_)
SumSeq(s) == IF s = <<>> THEN 0 ELSE Head(s) + SumSeq(Tail(s))

MaxOfSeq(s) == CHOOSE x \in {s[i] : i \in DOMAIN s} :
                   \A y \in {s[i] : i \in DOMAIN s} : y <= x

MinOfSet(S) == CHOOSE x \in S : \A y \in S : x <= y

\* the integer nearest to num/den (num >= 0, den > 0), a tie going to the
\* even neighbour: Python's round() on a value whose tie is exact in binary
RoundHalfEven(num, den) ==
    LET q == num \div den
        r == num % den
    IN  IF 2 * r < den THEN q
        ELSE IF 2 * r > den THEN q + 1
        ELSE IF q % 2 = 0 THEN q ELSE q + 1

\* round(num/den, 1) and round(num/den, 2) of a quotient of hundredths
Round1(num, den) == 10 * RoundHalfEven(num, 10 * den)
Round2(num, den) == RoundHalfEven(num, den)

\* sorted(S): the elements of a set in ascending order
RECURSIVE SortedSeq(_)
SortedSeq(S) == IF S = {} THEN <<>>
                ELSE LET m == MinOfSet(S) IN <<m>> \o SortedSeq(S \ {m})

RECURSIVE Flatten(_)
Flatten(ss) == IF ss = <<>> THEN <<>> ELSE Head(ss) \o Flatten(Tail(ss))

---------------------------------------------------------------------------
(* api_client.get_station_data / get_stations: the list of station entries  *)
(* of a JSON answer.  A JSON list is taken as it is, a JSON object is read  *)
(* with .get("stations", []), anything else has no .get and raises.        *)

stations_of_raises(json) == json.shape = "scalar"

stations_of(json) ==
    IF json.shape = "list" THEN json.stations
    ELSE IF json.shape = "dict" THEN json.stations
    ELSE <<>>

---------------------------------------------------------------------------
(* The measurement normaliser, the same code in get_recent_conditions and  *)
(* in analyze_snowpack_trends.                                             *)

\* element_data[code] = values, in the order of the groups: a later group
\* of the same code replaces the earlier one; a group without elementCode
\* is filed under ""
element_data(station_data) ==
    LET codes == {station_data[i].elementCode : i \in DOMAIN station_data}
        last(c) == CHOOSE i \in DOMAIN station_data :
                      /\ station_data[i].elementCode = c
                      /\ \A j \in DOMAIN station_data :
                            station_data[j].elementCode = c => j <= i
    IN  [c \in codes |-> station_data[last(c)].values]

\* dates.add(v.get("date")) over every series
observed_dates(ed) ==
    UNION {{ed[c][i].date : i \in DOMAIN ed[c]} : c \in DOMAIN ed}

\* sorted(dates) compares None with a string as soon as both are in the set
sorted_raises(dates) == NoDate \in dates /\ Cardinality(dates) > 1

\* a scan that goes on to the last observation of the date
last_match(values, date) ==
    LET i == CHOOSE j \in DOMAIN values :
                 /\ values[j].date = date
                 /\ \A h \in DOMAIN values : values[h].date = date => h <= j
    IN  values[i].value

\* the value the scan of one series stops at: the first observation of the date
first_match(values, date) ==
    LET i == MinOfSet({j \in DOMAIN values : values[j].date = date})
    IN  values[i].value

\* a normaliser that leaves a null value out of the record
record_of_without_null(ed, date) ==
    LET has == {c \in DOMAIN ed : /\ \E j \in DOMAIN ed[c] : ed[c][j].date = date
                                  /\ first_match(ed[c], date) # Null}
    IN  [k \in {"date"} \cup has |->
            IF k = "date" THEN date ELSE first_match(ed[k], date)]

\* record = {"date": date}; record[code] = v.get("value") for each code
\* whose series holds the date
record_of(ed, date) ==
    LET has == {c \in DOMAIN ed : \E j \in DOMAIN ed[c] : ed[c][j].date = date}
    IN  [k \in {"date"} \cup has |->
            IF k = "date" THEN date ELSE first_match(ed[k], date)]

\* the records one matching station entry appends
station_records(station) ==
    LET ed == element_data(station.data)
        ds == SortedSeq(observed_dates(ed))
    IN  [i \in DOMAIN ds |-> record_of(ed, ds[i])]

station_raises(station) ==
    sorted_raises(observed_dates(element_data(station.data)))

\* the station entries of the answer the loop takes up
matching(data, station_triplet) ==
    SelectSeq(data, LAMBDA s : s.stationTriplet = station_triplet)

\* measurements: every matching entry's records, in the order of the entries
parse_measurements(data, station_triplet) ==
    LET m == matching(data, station_triplet)
    IN  Flatten([i \in DOMAIN m |-> station_records(m[i])])

parse_raises(data, station_triplet) ==
    LET m == matching(data, station_triplet)
    IN  \E i \in DOMAIN m : station_raises(m[i])

---------------------------------------------------------------------------
(* The trend analysis of analyze_snowpack_trends.                          *)

\* [(r["date"], r[code]) for r in measurements if code in r and r[code] is not None]
element_series(measurements, code) ==
    LET kept == SelectSeq(measurements,
                    LAMBDA r : code \in DOMAIN r /\ r[code] # Null)
    IN  [i \in DOMAIN kept |-> <<kept[i]["date"], kept[i][code]>>]

series_values(series) == [i \in DOMAIN series |-> series[i][2]]

\* [d[0] for d in series if d[1] == peak][0]
peak_date(series, peak) ==
    series[MinOfSet({i \in DOMAIN series : series[i][2] = peak})][1]

\* a depth report that prints zeros when there is no depth
snow_depth_analysis_with_zeros(snow_depths) ==
    LET depths == series_values(snow_depths)
        none == snow_depths = <<>>
    IN  [peak_depth |-> [value |-> IF none THEN 0 ELSE Round1(MaxOfSeq(depths), 1),
                         date |-> IF none THEN NoDate
                                  ELSE peak_date(snow_depths, MaxOfSeq(depths)),
                         unit |-> "inches"],
         average_depth |-> IF none THEN 0 ELSE Round1(SumSeq(depths), Len(depths)),
         days_with_snow |-> Cardinality({i \in DOMAIN depths : depths[i] > 0}),
         total_observations |-> Len(depths)]

snow_depth_analysis(snow_depths) ==
    IF snow_depths = <<>> THEN EmptyDict
    ELSE LET depths == series_values(snow_depths)
             peak_depth == MaxOfSeq(depths)
         IN  [peak_depth |-> [value |-> Round1(peak_depth, 1),
                              date |-> peak_date(snow_depths, peak_depth),
                              unit |-> "inches"],
              average_depth |-> Round1(SumSeq(depths), Len(depths)),
              days_with_snow |-> Cardinality({i \in DOMAIN depths : depths[i] > 0}),
              total_observations |-> Len(depths)]

swe_analysis(swes) ==
    IF swes = <<>> THEN EmptyDict
    ELSE LET swe_values == series_values(swes)
             peak_swe == MaxOfSeq(swe_values)
         IN  [peak_swe |-> [value |-> Round2(peak_swe, 1),
                            date |-> peak_date(swes, peak_swe),
                            unit |-> "inches"],
              average_swe |-> Round2(SumSeq(swe_values), Len(swe_values)),
              total_observations |-> Len(swe_values)]

\* a comparison that lets a flat pair through
is_snowfall_or_flat(prev_depth, curr_depth) == curr_depth >= prev_depth

\* if curr_depth > prev_depth
is_snowfall(prev_depth, curr_depth) == curr_depth > prev_depth

\* for i in range(1, len(snow_depths)): compare with snow_depths[i-1]
snowfall_days(snow_depths) ==
    LET idx == SortedSeq({i \in 2..Len(snow_depths) :
                   is_snowfall(snow_depths[i-1][2], snow_depths[i][2])})
    IN  [k \in DOMAIN idx |->
            [date |-> snow_depths[idx[k]][1],
             amount |-> Round1(snow_depths[idx[k]][2]
                                 - snow_depths[idx[k] - 1][2], 1)]]

\* the last event of the largest amount instead of the first
max_daily_record_last(events, max_daily) ==
    events[CHOOSE i \in DOMAIN events :
              /\ events[i].amount = max_daily
              /\ \A j \in DOMAIN events : events[j].amount = max_daily => j <= i]

\* [s for s in snowfall_days if s["amount"] == max_daily][0]
max_daily_record(events, max_daily) ==
    events[MinOfSet({i \in DOMAIN events : events[i].amount = max_daily})]

snowfall_analysis(events) ==
    IF events = <<>> THEN EmptyDict
    ELSE LET snowfall_amounts == [i \in DOMAIN events |-> events[i].amount]
             total_snowfall == SumSeq(snowfall_amounts)
             max_daily == MaxOfSeq(snowfall_amounts)
         IN  [total_new_snow |-> Round1(total_snowfall, 1),
              snow_days |-> Len(events),
              biggest_day |-> [amount |-> Round1(max_daily, 1),
                               date |-> max_daily_record(events, max_daily).date,
                               unit |-> "inches"],
              average_per_snow_day |-> Round1(total_snowfall, Len(events)),
              snowfall_events |-> events]

\* a summary that carries only the records with a depth
summary_measurements_with_depth(measurements) ==
    SelectSeq(measurements, LAMBDA r : "SNWD" \in DOMAIN r /\ r["SNWD"] # Null)

\* the measurements the Trend Summary carries
summary_measurements(measurements) == measurements

\* the Trend Summary document
trend_summary(a, measurements) ==
    LET snow_depths == element_series(measurements, "SNWD")
        swes == element_series(measurements, "WTEQ")
    IN  [station_triplet |-> a.station_triplet,
         period |-> [start_date |-> a.start_date, end_date |-> a.end_date],
         total_records |-> Len(measurements),
         snow_depth_analysis |-> snow_depth_analysis(snow_depths),
         swe_analysis |-> swe_analysis(swes),
         snowfall_analysis |-> snowfall_analysis(snowfall_days(snow_depths)),
         measurements |-> summary_measurements(measurements)]

---------------------------------------------------------------------------
(* What a tool hands back.  A text result is the tag of its message and    *)
(* the values formatted into it; a JSON result is the document dumped.     *)

Text(msg, fields) == [kind |-> "text", msg |-> msg, fields |-> fields]
JsonObject(doc) == [kind |-> "json", top |-> "object", doc |-> doc]
JsonArray(doc) == [kind |-> "json", top |-> "array", doc |-> doc]
\* an exception leaving the tool, were one to
Propagated(exc) == [kind |-> "exception", exc |-> exc]

Returns(value) == [raised |-> FALSE, exc |-> "none", value |-> value]
Raises(exc) == [raised |-> TRUE, exc |-> exc, value |-> NoResult]

\* the except clause of each tool
except_result(t, exc) ==
    CASE t = "find_snotel_stations" -> Text("Error finding stations", <<exc>>)
      [] t = "get_station_info" -> Text("Error getting station info", <<exc>>)
      [] t = "get_station_data" -> Text("Error getting station data", <<exc>>)
      [] t = "get_recent_conditions" ->
             Text("Error getting recent conditions", <<exc>>)
      [] t = "analyze_snowpack_trends" ->
             JsonObject([error |-> <<"Error analyzing snowpack trends", exc>>])

\* a clause that names the transport errors only
try_except_transport_only(t, outcome) ==
    IF ~outcome.raised THEN outcome.value
    ELSE IF outcome.exc \in {"HTTPStatusError", "TimeoutException", "ConnectError"}
         THEN except_result(t, outcome.exc)
         ELSE Propagated(outcome.exc)

\* try: ... except Exception as e: whatever the body raised becomes a result
try_except(t, outcome) ==
    IF outcome.raised THEN except_result(t, outcome.exc) ELSE outcome.value

---------------------------------------------------------------------------
(* api_client: the request each call builds.                               *)

Truthy(x) == x # NoNum /\ x # 0

\* str.upper() on a state code
upper(state) == IF state = "co" THEN "CO" ELSE state

get_stations_params(state, network, lat, lon, radius) ==
    IF state # NoState /\ state # ""
    THEN [stationTriplets |-> <<"*", upper(state), network>>]
    ELSE IF Truthy(lat) /\ Truthy(lon) /\ Truthy(radius)
    THEN [latitude |-> lat, longitude |-> lon, radius |-> radius,
          networks |-> network, logicalAnd |-> "true"]
    ELSE [networks |-> network]

DefaultElements == <<"SNWD", "WTEQ", "TOBS", "PREC">>
NoElements == <<"None">>
NoDuration == "None"

get_station_data_params(station_triplet, start_date, end_date, elements, duration) ==
    [stationTriplets |-> station_triplet,
     elements |-> IF elements = NoElements THEN DefaultElements ELSE elements,
     beginDate |-> start_date,
     endDate |-> end_date,
     ordinal |-> "1",
     duration |-> duration]

\* the parameters of the get_station_data tool: duration has no default
get_station_data_required == {"station_triplet", "start_date", "end_date", "duration"}
get_station_data_optional == {"elements"}

\* a call binds when it passes every parameter without default and no
\* keyword the signature does not have
binds(required, optional, keywords) ==
    required \subseteq keywords /\ keywords \subseteq required \cup optional

\* a retrying client would issue the request again
retry_while_allowed(attempts) == attempts < MaxRequests

\* _request raises what the transport raised; nothing issues it again
retry_on_failure(attempts) == FALSE

---------------------------------------------------------------------------
(* The bodies of the tools, from the answer on.                            *)

ListLimit == 20

\* f"{lat:.4f}" and f"{elev:,.0f}" raise on a value that is no number
format_raises(stations) ==
    \E i \in DOMAIN stations : i <= ListLimit /\ ~stations[i].numeric

find_snotel_stations_body(a, json) ==
    IF stations_of_raises(json) THEN Raises("AttributeError")
    ELSE LET stations == stations_of(json)
             shown == SubSeq(stations, 1, IF Len(stations) < ListLimit
                                          THEN Len(stations) ELSE ListLimit)
             where == IF a.state # NoState /\ a.state # "" THEN "in state"
                      ELSE IF Truthy(a.latitude) /\ Truthy(a.longitude)
                           THEN "within radius" ELSE "everywhere"
         IN  IF stations = <<>> THEN Returns(Text("No SNOTEL stations found", <<>>))
             ELSE IF format_raises(stations) THEN Raises("ValueError")
             ELSE Returns(Text("Found stations",
                     <<Len(stations), where,
                       [i \in DOMAIN shown |-> shown[i].stationTriplet],
                       IF Len(stations) > ListLimit
                       THEN Len(stations) - ListLimit ELSE 0>>))

get_station_info_body(a, json) ==
    IF stations_of_raises(json) THEN Raises("AttributeError")
    ELSE LET stations == stations_of(json)
             hits == {i \in DOMAIN stations :
                        stations[i].stationTriplet = a.station_triplet}
         IN  IF hits = {} THEN Returns(Text("Station not found", <<a.station_triplet>>))
             ELSE LET station == stations[MinOfSet(hits)]
                  IN  IF ~station.numeric THEN Raises("ValueError")
                      ELSE Returns(Text("Station info", <<station.stationTriplet>>))

get_station_data_body(a, json) ==
    IF stations_of_raises(json) THEN Raises("AttributeError")
    ELSE LET data == stations_of(json)
         IN  IF data = <<>> THEN Returns(Text("No data found", <<a.station_triplet>>))
             ELSE Returns(JsonArray(data))

ShownCodes == {"SNWD", "WTEQ", "TOBS", "PREC"}

get_recent_conditions_body(a, json) ==
    IF stations_of_raises(json) THEN Raises("AttributeError")
    ELSE LET data == stations_of(json)
         IN  IF data = <<>>
             THEN Returns(Text("No recent data available", <<a.station_triplet>>))
             ELSE IF parse_raises(data, a.station_triplet) THEN Raises("TypeError")
             ELSE LET measurements == parse_measurements(data, a.station_triplet)
                  IN  IF measurements = <<>>
                      THEN Returns(Text("No measurements found", <<a.station_triplet>>))
                      ELSE LET latest == measurements[Len(measurements)]
                               shown == {c \in ShownCodes :
                                           c \in DOMAIN latest /\ latest[c] # Null}
                               snow_depths ==
                                   series_values(element_series(measurements, "SNWD"))
                           IN  Returns(Text("Recent Conditions",
                                 <<a.days, Len(measurements), latest["date"],
                                   [c \in shown |-> latest[c]],
                                   IF snow_depths = <<>> THEN <<>>
                                   ELSE <<MaxOfSeq(snow_depths),
                                          MinOfSet({snow_depths[i] : i \in DOMAIN snow_depths}),
                                          Round1(SumSeq(snow_depths), Len(snow_depths))>>
                                 >>))

\* an empty answer reported with the message of a failure
no_data_as_failure(station_triplet) ==
    JsonObject([error |-> <<"Error analyzing snowpack trends", station_triplet>>])

\* {"error": "No data available for analysis: ..."}
no_data_result(station_triplet) ==
    JsonObject([error |-> <<"No data available for analysis", station_triplet>>])

analyze_snowpack_trends_body(a, json) ==
    IF stations_of_raises(json) THEN Raises("AttributeError")
    ELSE LET data == stations_of(json)
         IN  IF data = <<>> THEN Returns(no_data_result(a.station_triplet))
             ELSE IF parse_raises(data, a.station_triplet) THEN Raises("TypeError")
             ELSE LET measurements == parse_measurements(data, a.station_triplet)
                  IN  IF measurements = <<>>
                      THEN Returns(JsonObject(
                              [error |-> <<"No measurements found for analysis">>]))
                      ELSE Returns(JsonObject(trend_summary(a, measurements)))

---------------------------------------------------------------------------
(* What the callers pass and what the Remote Data Source may answer.       *)

RequestedTriplet == <<"713", "CO", "SNTL">>
OtherTriplet == <<"669", "CO", "SNTL">>
MalformedTriplet == <<"713", "CO">>
Triplets == {RequestedTriplet, OtherTriplet}

States == {NoState, "CO", "co"}
Latitudes == {NoNum, 0, 39}
Longitudes == {NoNum, -106}
Radii == {NoNum, 25}
Durations == {"DAILY", "HOURLY"}
ElementLists == {<<"SNWD">>}
\* the keywords a caller of get_station_data passes
Keywords == {{"station_triplet", "start_date", "end_date", "duration"},
             {"station_triplet", "start_date", "end_date", "duration", "elements"},
             {"station_triplet", "start_date", "end_date", "duration_name"},
             {"station_triplet", "start_date", "end_date"}}
StartDates == {1}
EndDates == {4}
Days == {30}

TransportErrors == {"HTTPStatusError", "TimeoutException", "ConnectError"}

\* element codes of a group; "" stands for a group without elementCode
Codes == {"SNWD", "WTEQ", ""}
\* the observations of a structurally varied answer: one without a date,
\* one with a null value, two values of one day, and a second day
StructObs == {[date |-> NoDate, value |-> 1000], [date |-> 1, value |-> Null],
              [date |-> 1, value |-> 1000], [date |-> 1, value |-> 1200],
              [date |-> 2, value |-> 1000]}
\* the values of a single-element series: 10.00, 10.04, 12.00, ... inches
SeriesValues == {Null, 1000, 1004, 1200, 1400, 1500, 2000}

\* the groups holding c observations; an empty group counts for one
GroupsOfCost(c) ==
    {[elementCode |-> code, values |-> vs] :
        code \in Codes,
        vs \in [1..c -> StructObs] \cup (IF c = 1 THEN {<<>>} ELSE {})}

\* the data lists of one station entry holding c observations in all
RECURSIVE GroupLists(_)
GroupLists(c) ==
    IF c = 0 THEN {<<>>}
    ELSE UNION {{<<g>> \o rest : g \in GroupsOfCost(f), rest \in GroupLists(c - f)} :
                   f \in 1..c}

\* one station entry, of the requested station or of another one
OneStationLists(k) ==
    UNION {{<<[stationTriplet |-> t, data |-> gl]>> :
               t \in Triplets, gl \in GroupLists(c)} : c \in 0..k}

\* several entries, each with one snow depth observation
EntryKinds ==
    {[stationTriplet |-> t,
      data |-> <<[elementCode |-> "SNWD",
                  values |-> <<[date |-> d, value |-> 1000]>>]>>] :
        t \in Triplets, d \in {1, 2}}
ManyStationLists == UNION {[1..n -> EntryKinds] : n \in 0..MaxEntries}

StructLists == OneStationLists(MaxObs) \cup ManyStationLists

\* one entry of the requested station with one series, f, on the days 1..n
SeriesList(code, f) ==
    <<[stationTriplet |-> RequestedTriplet,
       data |-> <<[elementCode |-> code,
                   values |-> [i \in DOMAIN f |-> [date |-> i, value |-> f[i]]]]>>]>>

\* the entries of an answer of the stations endpoint
StationEntries == [stationTriplet : Triplets, numeric : BOOLEAN]
StationsLists == UNION {[1..n -> StationEntries] : n \in 0..MaxEntries}

JsonList(stations) == [shape |-> "list", stations |-> stations]
JsonDict(stations) == [shape |-> "dict", stations |-> stations]
OtherJson == {[shape |-> "dictNoKey", stations |-> <<>>],
              [shape |-> "scalar", stations |-> <<>>]}

Answers(t) ==
    CASE t \in {"find_snotel_stations", "get_station_info"} ->
             {JsonList(l) : l \in StationsLists}
             \cup {JsonDict(l) : l \in StationsLists} \cup OtherJson
      [] t = "get_station_data" ->
             {JsonList(l) : l \in ManyStationLists}
             \cup {JsonDict(l) : l \in OneStationLists(1)} \cup OtherJson
      [] t = "get_recent_conditions" ->
             {JsonList(l) : l \in StructLists}
             \cup {JsonDict(l) : l \in OneStationLists(1)} \cup OtherJson
      [] t = "analyze_snowpack_trends" ->
             {JsonList(l) : l \in StructLists}
             \cup {JsonDict(l) : l \in OneStationLists(1)} \cup OtherJson

---------------------------------------------------------------------------
(* The state machine: one invocation at a time; the tools share no state.  *)

Init ==
    /\ pc = "idle"
    /\ tool = "none"
    /\ args = NoArgs
    /\ request = NoRequest
    /\ requests = 0
    /\ response = NoResponse
    /\ result = NoResult

\* the call is accepted and the coroutine runs up to its await
Issue(t, a, endpoint, params) ==
    /\ pc = "idle"
    /\ tool' = t
    /\ args' = a
    /\ request' = [endpoint |-> endpoint, params |-> params]
    /\ requests' = 1
    /\ response' = NoResponse
    /\ result' = NoResult
    /\ pc' = "awaiting"

\* the call does not fit the signature of the tool: the tool is not entered
Reject(t, supplied) ==
    /\ pc = "idle"
    /\ tool' = t
    /\ args' = supplied
    /\ request' = NoRequest
    /\ requests' = 0
    /\ response' = NoResponse
    /\ result' = NoResult
    /\ pc' = "rejected"

\* the coroutine resumes: on the answer, or on what _request raised
Resume(t, outcome) ==
    /\ pc \in {"responded", "failed"}
    /\ tool = t
    /\ result' = try_except(t, IF pc = "failed" THEN Raises(response.shape)
                               ELSE outcome)
    /\ pc' = "returned"
    /\ UNCHANGED <<tool, args, request, requests, response>>

find_snotel_stations_call ==
    \E state \in States, latitude \in Latitudes, longitude \in Longitudes,
       radius_miles \in Radii :
        Issue("find_snotel_stations",
              [state |-> state, latitude |-> latitude, longitude |-> longitude,
               radius_miles |-> radius_miles, network |-> "SNTL"],
              "stations",
              get_stations_params(state, "SNTL", latitude, longitude, radius_miles))

find_snotel_stations ==
    Resume("find_snotel_stations", find_snotel_stations_body(args, response))

get_station_info_call ==
    \E station_triplet \in {RequestedTriplet, MalformedTriplet} :
        \/ /\ Len(station_triplet) = 3
           /\ Issue("get_station_info", [station_triplet |-> station_triplet],
                    "stations",
                    get_stations_params(station_triplet[2], station_triplet[3],
                                        NoNum, NoNum, NoNum))
        \/ /\ Len(station_triplet) # 3
           /\ pc = "idle"
           /\ tool' = "get_station_info"
           /\ args' = [station_triplet |-> station_triplet]
           /\ request' = NoRequest
           /\ requests' = 0
           /\ response' = NoResponse
           /\ result' = try_except("get_station_info",
                            Returns(Text("Invalid station triplet format", <<>>)))
           /\ pc' = "returned"

get_station_info ==
    Resume("get_station_info", get_station_info_body(args, response))

get_station_data_call ==
    \E start_date \in StartDates, end_date \in EndDates, duration \in Durations,
       elements \in ElementLists, keywords \in Keywords :
        LET value(k) == CASE k = "station_triplet" -> RequestedTriplet
                          [] k = "start_date" -> start_date
                          [] k = "end_date" -> end_date
                          [] k \in {"duration", "duration_name"} -> duration
                          [] k = "elements" -> elements
            supplied == [k \in keywords |-> value(k)]
            given == IF "elements" \in keywords THEN elements ELSE NoElements
        IN  \/ /\ binds(get_station_data_required, get_station_data_optional, keywords)
               /\ Issue("get_station_data",
                        [station_triplet |-> RequestedTriplet,
                         start_date |-> start_date, end_date |-> end_date,
                         duration |-> duration, elements |-> given],
                        "data",
                        get_station_data_params(RequestedTriplet, start_date,
                                                end_date, given, duration))
            \/ /\ ~binds(get_station_data_required, get_station_data_optional, keywords)
               /\ Reject("get_station_data", supplied)

get_station_data ==
    Resume("get_station_data", get_station_data_body(args, response))

get_recent_conditions_call ==
    \E days \in Days, now \in {40} :
        Issue("get_recent_conditions",
              [station_triplet |-> RequestedTriplet, days |-> days],
              "data",
              get_station_data_params(RequestedTriplet, now - days, now,
                                      NoElements, NoDuration))

get_recent_conditions ==
    Resume("get_recent_conditions", get_recent_conditions_body(args, response))

analyze_snowpack_trends_call ==
    \E start_date \in StartDates, end_date \in EndDates :
        Issue("analyze_snowpack_trends",
              [station_triplet |-> RequestedTriplet, start_date |-> start_date,
               end_date |-> end_date],
              "data",
              get_station_data_params(RequestedTriplet, start_date, end_date,
                                      NoElements, NoDuration))

analyze_snowpack_trends ==
    Resume("analyze_snowpack_trends", analyze_snowpack_trends_body(args, response))

\* response.json() of a 2xx answer
SourceResponds ==
    /\ pc = "awaiting"
    /\ \/ \E json \in Answers(tool) : response' = json
       \/ /\ tool = "analyze_snowpack_trends"
          /\ \E code \in {"SNWD", "WTEQ"}, n \in 1..MaxSeries :
                \E f \in [1..n -> SeriesValues] :
                    response' = JsonList(SeriesList(code, f))
    /\ pc' = "responded"
    /\ UNCHANGED <<tool, args, request, requests, result>>

\* raise_for_status() on a non-2xx answer, a timeout, a connection failure
SourceFails ==
    /\ pc = "awaiting"
    /\ \E exc \in TransportErrors :
          IF retry_on_failure(requests)
          THEN /\ requests' = requests + 1
               /\ UNCHANGED <<pc, response>>
          ELSE /\ response' = [shape |-> exc, stations |-> <<>>]
               /\ pc' = "failed"
               /\ UNCHANGED requests
    /\ UNCHANGED <<tool, args, request, result>>

\* the caller has the result; the server waits for the next invocation
Serve ==
    /\ pc \in {"returned", "rejected"}
    /\ pc' = "idle"
    /\ tool' = "none"
    /\ args' = NoArgs
    /\ request' = NoRequest
    /\ requests' = 0
    /\ response' = NoResponse
    /\ result' = NoResult

Next ==
    \/ find_snotel_stations_call
    \/ find_snotel_stations
    \/ get_station_info_call
    \/ get_station_info
    \/ get_station_data_call
    \/ get_station_data
    \/ get_recent_conditions_call
    \/ get_recent_conditions
    \/ analyze_snowpack_trends_call
    \/ analyze_snowpack_trends
    \/ SourceResponds
    \/ SourceFails
    \/ Serve

Spec == Init /\ [][Next]_vars

---------------------------------------------------------------------------
(* Vocabulary of the properties.                                           *)

Analyzed == pc = "returned" /\ tool = "analyze_snowpack_trends"

\* the answer was JSON that api_client could read a station list from
Answered == response.shape \in {"list", "dict", "dictNoKey"}

\* the result is a Trend Summary (not an {"error": ...} document)
IsTrendSummary ==
    /\ Analyzed
    /\ result.kind = "json"
    /\ result.top = "object"
    /\ "station_triplet" \in DOMAIN result.doc

ErrorShaped(r) ==
    r.kind = "json" /\ r.top = "object" /\ "error" \in DOMAIN r.doc

\* the entries of the answer that carry the requested triplet
Entries ==
    {i \in DOMAIN response.stations :
        response.stations[i].stationTriplet = args.station_triplet}

\* the groups of an entry that the normaliser reads: the last of each code
ReadGroups(e) ==
    {g \in DOMAIN e.data :
        \A h \in DOMAIN e.data : e.data[h].elementCode = e.data[g].elementCode => h <= g}

DatesOf(e) ==
    UNION {{e.data[g].values[j].date : j \in DOMAIN e.data[g].values} :
              g \in ReadGroups(e)}

HasValue(r, code) == code \in DOMAIN r /\ r[code] # Null

Events(doc) ==
    IF DOMAIN doc.snowfall_analysis = {} THEN <<>>
    ELSE doc.snowfall_analysis.snowfall_events

---------------------------------------------------------------------------
(* C1: the records of a Trend Summary have strictly ascending dates: each  *)
(* record's date is greater than the date of the record before it, so no   *)
(* date appears twice.                                                     *)
C1_StrictlyAscendingDates ==
    IsTrendSummary =>
        LET m == result.doc.measurements
        IN  \A i \in DOMAIN m : i > 1 => m[i - 1]["date"] < m[i]["date"]

(* C2, as claimed: no record holds an element key whose value is null.      *)
C2_NoNullInRecords ==
    IsTrendSummary =>
        LET m == result.doc.measurements
        IN  \A i \in DOMAIN m : \A k \in DOMAIN m[i] \ {"date"} : m[i][k] # Null

(* C2, amended: every value of a record is the value of an observation of   *)
(* that element and date in the answer, null included; the first           *)
(* observation of a date in a series that is read leaves its value, null   *)
(* or not, under its element key in a record of that date; the depth and   *)
(* SWE analyses count only the records whose value is not null.            *)
C2_NullKeptInRecordLeftOutOfAnalysis ==
    IsTrendSummary =>
        LET m == result.doc.measurements
            data == response.stations
            count(code) == Cardinality({i \in DOMAIN m : HasValue(m[i], code)})
            observations(a) == IF DOMAIN a = {} THEN 0 ELSE a.total_observations
        IN  /\ \A i \in DOMAIN m : \A k \in DOMAIN m[i] \ {"date"} :
                  \E e \in Entries : \E g \in DOMAIN data[e].data :
                      /\ data[e].data[g].elementCode = k
                      /\ \E j \in DOMAIN data[e].data[g].values :
                            /\ data[e].data[g].values[j].date = m[i]["date"]
                            /\ data[e].data[g].values[j].value = m[i][k]
            /\ \A e \in Entries : \A g \in ReadGroups(data[e]) :
                  LET vs == data[e].data[g].values
                  IN  \A j \in DOMAIN vs :
                          (\A h \in DOMAIN vs : vs[h].date = vs[j].date => j <= h)
                          => \E i \in DOMAIN m :
                                /\ m[i]["date"] = vs[j].date
                                /\ data[e].data[g].elementCode \in DOMAIN m[i]
                                /\ m[i][data[e].data[g].elementCode] = vs[j].value
            /\ observations(result.doc.snow_depth_analysis) = count("SNWD")
            /\ observations(result.doc.swe_analysis) = count("WTEQ")

C2_Witness ==
    /\ IsTrendSummary
    /\ \E i \in DOMAIN result.doc.measurements :
          LET r == result.doc.measurements[i]
          IN  "SNWD" \in DOMAIN r /\ r["SNWD"] = Null
    /\ DOMAIN result.doc.snow_depth_analysis # {}

(* C3: a Snowfall Event is emitted for a record exactly when its depth is   *)
(* greater than the depth of the nearest earlier record that has a depth;  *)
(* the events are in the order of those records and carry their dates.     *)
C3_EventExactlyOnIncrease ==
    IsTrendSummary =>
        LET m == result.doc.measurements
            ev == Events(result.doc)
            before(j) == {p \in DOMAIN m : p < j /\ HasValue(m[p], "SNWD")}
            prev(j) == CHOOSE p \in before(j) : \A o \in before(j) : o <= p
            rose == {j \in DOMAIN m : /\ HasValue(m[j], "SNWD")
                                      /\ before(j) # {}
                                      /\ m[j]["SNWD"] > m[prev(j)]["SNWD"]}
            order == SortedSeq(rose)
        IN  /\ Len(ev) = Cardinality(rose)
            /\ \A k \in DOMAIN ev : ev[k].date = m[order[k]]["date"]

\* depths 10, null, 14, 14: one event, on day 3, across the gap
C3_Witness ==
    /\ IsTrendSummary
    /\ Len(result.doc.measurements) = 4
    /\ [i \in 1..4 |-> result.doc.measurements[i]["SNWD"]] = <<1000, Null, 1400, 1400>>
    /\ Len(Events(result.doc)) = 1
    /\ Events(result.doc)[1].date = 3

(* C4: with at least one event, total_new_snow is the sum of the event     *)
(* amounts, snow_days their number, biggest_day the first event of the     *)
(* largest amount, average_per_snow_day the total divided by the count,    *)
(* to the nearest tenth.                                                   *)
C4_SnowfallSummary ==
    (IsTrendSummary /\ Events(result.doc) # <<>>) =>
        LET ev == Events(result.doc)
            sa == result.doc.snowfall_analysis
            total == SumSeq([i \in DOMAIN ev |-> ev[i].amount])
            off == sa.average_per_snow_day * Len(ev) - total
        IN  /\ sa.total_new_snow = total
            /\ sa.snow_days = Len(ev)
            /\ \A i \in DOMAIN ev : ev[i].amount <= sa.biggest_day.amount
            /\ \E i \in DOMAIN ev :
                  /\ ev[i].amount = sa.biggest_day.amount
                  /\ ev[i].date = sa.biggest_day.date
                  /\ \A j \in DOMAIN ev : j < i => ev[j].amount < ev[i].amount
            /\ sa.average_per_snow_day % 10 = 0
            /\ 2 * off <= 10 * Len(ev)
            /\ 2 * off >= -(10 * Len(ev))

\* depths 10, 14, 14, 20 on days 1..4: total 10, 2 snow days, 6 on day 4, 5.0
C4_Witness ==
    /\ IsTrendSummary
    /\ Len(result.doc.measurements) = 4
    /\ [i \in 1..4 |-> result.doc.measurements[i]["SNWD"]] = <<1000, 1400, 1400, 2000>>
    /\ Events(result.doc) = <<[date |-> 2, amount |-> 400], [date |-> 4, amount |-> 600]>>
    /\ result.doc.snowfall_analysis.total_new_snow = 1000
    /\ result.doc.snowfall_analysis.snow_days = 2
    /\ result.doc.snowfall_analysis.biggest_day.amount = 600
    /\ result.doc.snowfall_analysis.biggest_day.date = 4
    /\ result.doc.snowfall_analysis.average_per_snow_day = 500

(* C5: the reported peak depth (and peak SWE) is the largest value that is *)
(* not null, as the summary prints it (depth to the nearest tenth, SWE to  *)
(* the hundredth), and its date is the earliest date on which that value   *)
(* occurs.                                                                 *)
C5_PeakOnEarliestDate ==
    IsTrendSummary =>
        LET m == result.doc.measurements
            with(code) == {i \in DOMAIN m : HasValue(m[i], code)}
            top(code) == CHOOSE v \in {m[i][code] : i \in with(code)} :
                             \A i \in with(code) : m[i][code] <= v
            first(code) ==
                MinOfSet({m[i]["date"] : i \in {j \in with(code) : m[j][code] = top(code)}})
            sd == result.doc.snow_depth_analysis
            sw == result.doc.swe_analysis
        IN  /\ DOMAIN sd # {} =>
                  /\ sd.peak_depth.value % 10 = 0
                  /\ 2 * (sd.peak_depth.value - top("SNWD")) <= 10
                  /\ 2 * (top("SNWD") - sd.peak_depth.value) <= 10
                  /\ sd.peak_depth.date = first("SNWD")
            /\ DOMAIN sw # {} =>
                  /\ sw.peak_swe.value = top("WTEQ")
                  /\ sw.peak_swe.date = first("WTEQ")

(* C6: every Trend Summary holds a measurements field with the whole       *)
(* record sequence: one record for each distinct date of each entry of the *)
(* requested station, every record's date one of that entry's dates, and   *)
(* total_records its length; also when the depth, SWE and snowfall         *)
(* analyses are all empty.                                                 *)
C6_SummaryCarriesAllRecords ==
    IsTrendSummary =>
        LET doc == result.doc
            data == response.stations
            perEntry == [k \in 1..Len(data) |->
                            IF k \in Entries THEN Cardinality(DatesOf(data[k])) ELSE 0]
        IN  /\ "measurements" \in DOMAIN doc
            /\ doc.total_records = Len(doc.measurements)
            /\ Len(doc.measurements) = SumSeq(perEntry)
            /\ \A e \in Entries : \A d \in DatesOf(data[e]) :
                  \E i \in DOMAIN doc.measurements : doc.measurements[i]["date"] = d

\* two records, neither with a depth or a SWE value
C6_Witness ==
    /\ IsTrendSummary
    /\ Len(result.doc.measurements) = 2
    /\ DOMAIN result.doc.snow_depth_analysis = {}
    /\ DOMAIN result.doc.swe_analysis = {}
    /\ DOMAIN result.doc.snowfall_analysis = {}

\* the source answered, and its station list is empty
EmptyAnswer == Analyzed /\ Answered /\ response.stations = <<>>

\* the request failed: a non-2xx status, a timeout, a connection failure
RequestFailed == pc = "returned" /\ response.shape \in TransportErrors

(* C7, as claimed: the result for an empty answer is not error-shaped.      *)
C7_NoDataIsNotErrorShaped ==
    EmptyAnswer => ~ErrorShaped(result)

(* C7, amended: the result for an empty answer is returned, not raised; it *)
(* is a JSON object whose only key is "error", and it differs from the     *)
(* result of a failed request only by its message, "No data available for  *)
(* analysis" against "Error analyzing snowpack trends".                    *)
C7_NoDataIsAnErrorDocumentWithItsOwnMessage ==
    /\ EmptyAnswer =>
          /\ ErrorShaped(result)
          /\ DOMAIN result.doc = {"error"}
          /\ result.doc.error[1] = "No data available for analysis"
    /\ (Analyzed /\ RequestFailed) =>
          /\ ErrorShaped(result)
          /\ DOMAIN result.doc = {"error"}
          /\ result.doc.error[1] = "Error analyzing snowpack trends"

C7_Witness == EmptyAnswer /\ response.shape = "list" /\ ErrorShaped(result)

(* C8: every invocation of the five tools ends by returning a text or a    *)
(* JSON result, whatever the request's outcome and the answer's shape: no  *)
(* exception leaves the tool.                                              *)
C8_AlwaysAResult ==
    /\ pc = "returned" =>
          /\ tool \in {"find_snotel_stations", "get_station_info", "get_station_data",
                       "get_recent_conditions", "analyze_snowpack_trends"}
          /\ result.kind \in {"text", "json"}
    /\ pc # "returned" => result = NoResult

\* the body raised on an answer it could not read, and a result came back
C8_Witness ==
    /\ pc = "returned"
    /\ tool = "get_recent_conditions"
    /\ response.shape = "list"
    /\ result = Text("Error getting recent conditions", <<"TypeError">>)

(* C9: an invocation issues at most one outbound request; a failed request *)
(* is not issued again, and the invocation ends with an error result.      *)
C9_OneRequestNoRetry ==
    /\ requests <= 1
    /\ pc = "failed" => requests = 1
    /\ RequestFailed =>
          /\ requests = 1
          /\ \/ result.kind = "text" /\ result.fields = <<response.shape>>
                /\ result.msg \in {"Error finding stations", "Error getting station info",
                                   "Error getting station data",
                                   "Error getting recent conditions"}
             \/ ErrorShaped(result)
                /\ result.doc.error = <<"Error analyzing snowpack trends", response.shape>>

C9_Witness ==
    RequestFailed /\ tool = "get_station_info" /\ requests = 1
        /\ result = Text("Error getting station info", <<"TimeoutException">>)

(* C10: a group without element code and an observation without date are   *)
(* skipped: whenever an entry of the requested station holds a well-formed *)
(* observation, the analysis returns a Trend Summary, and no record of it  *)
(* has the missing date or the missing element code as a key.              *)
C10_MalformedEntriesSkipped ==
    (Analyzed /\ Answered
       /\ \E e \in Entries : \E g \in DOMAIN response.stations[e].data :
             /\ response.stations[e].data[g].elementCode # ""
             /\ \E j \in DOMAIN response.stations[e].data[g].values :
                   response.stations[e].data[g].values[j].date # NoDate)
    => /\ IsTrendSummary
       /\ \A i \in DOMAIN result.doc.measurements :
             /\ result.doc.measurements[i]["date"] # NoDate
             /\ "" \notin DOMAIN result.doc.measurements[i]

(* C11: every Snowfall Event of a Trend Summary has an amount strictly      *)
(* greater than zero, the amount being the depth increase rounded to one   *)
(* decimal place.                                                          *)
C11_EventAmountPositive ==
    IsTrendSummary =>
        \A k \in DOMAIN Events(result.doc) : Events(result.doc)[k].amount > 0

\* the records whose depth is greater than the nearest earlier depth
DepthRises(m) ==
    LET before(j) == {p \in DOMAIN m : p < j /\ HasValue(m[p], "SNWD")}
        prev(j) == CHOOSE p \in before(j) : \A o \in before(j) : o <= p
    IN  {j \in DOMAIN m : /\ HasValue(m[j], "SNWD")
                          /\ before(j) # {}
                          /\ m[j]["SNWD"] > m[prev(j)]["SNWD"]}

(* C12, as claimed: the Trend Summary has no snow-depth sub-report when no  *)
(* record has a depth that is not null, and no snowfall sub-report when no *)
(* Snowfall Event was derived.                                             *)
C12_SubReportAbsent ==
    IsTrendSummary =>
        LET doc == result.doc
            m == doc.measurements
        IN  /\ (\A i \in DOMAIN m : ~HasValue(m[i], "SNWD"))
                  => "snow_depth_analysis" \notin DOMAIN doc
            /\ DepthRises(m) = {} => "snowfall_analysis" \notin DOMAIN doc

(* C12, amended: the Trend Summary always has the three sub-report keys; a  *)
(* sub-report without qualifying input is the empty object, with no field   *)
(* at all (neither zeros nor placeholders), and a sub-report with          *)
(* qualifying input has all of its fields.                                 *)
C12_SubReportEmptyObject ==
    IsTrendSummary =>
        LET doc == result.doc
            m == doc.measurements
        IN  /\ {"snow_depth_analysis", "swe_analysis", "snowfall_analysis"}
                  \subseteq DOMAIN doc
            /\ DOMAIN doc.snow_depth_analysis =
                  IF \E i \in DOMAIN m : HasValue(m[i], "SNWD")
                  THEN {"peak_depth", "average_depth", "days_with_snow",
                        "total_observations"}
                  ELSE {}
            /\ DOMAIN doc.swe_analysis =
                  IF \E i \in DOMAIN m : HasValue(m[i], "WTEQ")
                  THEN {"peak_swe", "average_swe", "total_observations"}
                  ELSE {}
            /\ DOMAIN doc.snowfall_analysis =
                  IF DepthRises(m) # {}
                  THEN {"total_new_snow", "snow_days", "biggest_day",
                        "average_per_snow_day", "snowfall_events"}
                  ELSE {}

\* depths 14, 14, 10: a depth report, and an empty snowfall report
C12_Witness ==
    /\ IsTrendSummary
    /\ Len(result.doc.measurements) = 3
    /\ [i \in 1..3 |-> result.doc.measurements[i]["SNWD"]] = <<1400, 1400, 1000>>
    /\ DOMAIN result.doc.snow_depth_analysis # {}
    /\ "snowfall_analysis" \in DOMAIN result.doc
    /\ DOMAIN result.doc.snowfall_analysis = {}

(* C13: a get_station_data call with station_triplet, start_date, end_date *)
(* and duration_name D, and no elements, is accepted, requests the data of  *)
(* (station_triplet, start_date, end_date, None, D) and returns the         *)
(* client's data as JSON; a call with station_triplet, start_date and       *)
(* end_date alone is accepted too.                                         *)
C13_DurationNameAccepted ==
    /\ (tool = "get_station_data" /\ "duration_name" \in DOMAIN args
          /\ "elements" \notin DOMAIN args) =>
          /\ pc # "rejected"
          /\ request = [endpoint |-> "data",
                        params |-> get_station_data_params(args.station_triplet,
                                       args.start_date, args.end_date,
                                       NoElements, args.duration_name)]
          /\ (pc = "returned" /\ response.shape = "list"
                /\ response.stations # <<>>) => result = JsonArray(response.stations)
    /\ (tool = "get_station_data"
          /\ DOMAIN args = {"station_triplet", "start_date", "end_date"}) =>
          pc # "rejected"

(* C14: every value of a record is the value of the first observation of   *)
(* the record's date in a series of that element, and when a series holds  *)
(* a date more than once the record of that date holds the value of the    *)
(* first of these observations, not of a later one.                        *)
C14_FirstMatchWins ==
    IsTrendSummary =>
        LET m == result.doc.measurements
            data == response.stations
            first(vs, j) == \A h \in DOMAIN vs : vs[h].date = vs[j].date => j <= h
        IN  /\ \A i \in DOMAIN m : \A k \in DOMAIN m[i] \ {"date"} :
                  \E e \in Entries : \E g \in ReadGroups(data[e]) :
                      /\ data[e].data[g].elementCode = k
                      /\ \E j \in DOMAIN data[e].data[g].values :
                            /\ data[e].data[g].values[j].date = m[i]["date"]
                            /\ first(data[e].data[g].values, j)
                            /\ data[e].data[g].values[j].value = m[i][k]
            /\ Cardinality(Entries) = 1 =>
                  \A e \in Entries : \A g \in ReadGroups(data[e]) :
                      LET vs == data[e].data[g].values
                          code == data[e].data[g].elementCode
                      IN  \A j \in DOMAIN vs : first(vs, j) =>
                              \A i \in DOMAIN m : m[i]["date"] = vs[j].date =>
                                  /\ code \in DOMAIN m[i]
                                  /\ m[i][code] = vs[j].value

\* a depth series with 10 and then 12 on day 1: the record of day 1 holds 10
C14_Witness ==
    /\ IsTrendSummary
    /\ response.stations =
          <<[stationTriplet |-> RequestedTriplet,
             data |-> <<[elementCode |-> "SNWD",
                         values |-> <<[date |-> 1, value |-> 1000],
                                      [date |-> 1, value |-> 1200]>>]>>]>>
    /\ Len(result.doc.measurements) = 1
    /\ result.doc.measurements[1]["SNWD"] = 1000

(* C15: the one request of find_snotel_stations goes to the stations       *)
(* endpoint; called without state and with a latitude, a longitude and a   *)
(* radius, it carries that latitude, longitude and radius and the network  *)
(* code; called with a state, it is the state search *:STATE:network       *)
(* whatever latitude and longitude were given.                             *)
C15_LocationOrStateSearch ==
    (tool = "find_snotel_stations" /\ pc # "idle") =>
        /\ requests = 1
        /\ request.endpoint = "stations"
        /\ (args.state = NoState /\ args.latitude # NoNum
              /\ args.longitude # NoNum /\ args.radius_miles # NoNum) =>
              /\ {"latitude", "longitude", "radius", "networks"}
                    \subseteq DOMAIN request.params
              /\ request.params.latitude = args.latitude
              /\ request.params.longitude = args.longitude
              /\ request.params.radius = args.radius_miles
              /\ request.params.networks = args.network
        /\ args.state # NoState =>
              request.params = [stationTriplets |-> <<"*", "CO", args.network>>]

=============================================================================
